---- MODULE Spec2Model ----
(***************************************************************************)
(* The document state machine of the layout editor: the history container *)
(* (past, present, future) and the reducer editorReducer of               *)
(* src/src/state/editorState.tsx, its JSON serialization, the import     *)
(* handler of the top bar, and the creation of objects from the sidebar   *)
(* and the canvas.  Spec drives the reducer with the command intents of   *)
(* the editor, SpecArbitrary with values no panel produces, SpecCreation  *)
(* with quick-adds and drops under a clock.                               *)
(*                                                                         *)
(* Encoding.  An EditorObject is a record with the fields the reducer     *)
(* reads or that a command can change: id, type, x, y, width, height,     *)
(* zIndex, opacity, visible, locked.  The display attributes (name,       *)
(* stroke, points, text, ...) are carried by the code untouched and are   *)
(* left out; fill is carried only where it is undefined (image objects),  *)
(* the one value the serialization drops.  Fractional numbers are fixed point: zoom is in tenths       *)
(* (1.0 is 10, the clamp range [0.2, 4] is [2, 40]) and opacity in        *)
(* hundredths (0.95 is 95).  selectedId null is the value NoId.           *)
(* Sequences are 1-based, so array position i is index i + 1.             *)
(***************************************************************************)
EXTENDS Integers, Sequences, FiniteSets, TLC

VARIABLES state, prev, last, steps, now, quickCounter, dropCounter

vars == <<state, prev, last, steps, now, quickCounter, dropCounter>>

(* What lives outside the reducer: the clock Date.now() reads and the     *)
(* module-level counters of the sidebar and of the canvas.                *)
session == <<now, quickCounter, dropCounter>>

(* Number of commands dispatched in one explored session. *)
MaxSteps == 3

(* selectedId: string | null *)
NoId == "null"

(* The value undefined of an optional attribute (fill: undefined). *)
Undefined == "undefined"

(***************************************************************************)
(* Geometry utilities                                                      *)
(***************************************************************************)
Min2(a, b) == IF a < b THEN a ELSE b

Max2(a, b) == IF a > b THEN a ELSE b

(* clamp that applies the upper limit only. *)
clamp_noLowerBound(value, min, max) == Min2(value, max)

clamp(value, min, max) == Min2(Max2(value, min), max)

SetMin(S) == CHOOSE m \in S : \A n \in S : m <= n

SetMax(S) == CHOOSE m \in S : \A n \in S : m >= n

getBoundsFromPoints(points) ==
    LET xs == {points[i] : i \in {j \in 1..Len(points) : j % 2 = 1}}
        ys == {points[i] : i \in {j \in 1..Len(points) : j % 2 = 0}}
    IN [width |-> SetMax(xs) - SetMin(xs), height |-> SetMax(ys) - SetMin(ys),
        minX |-> SetMin(xs), minY |-> SetMin(ys)]

(***************************************************************************)
(* Object model                                                            *)
(***************************************************************************)
createRegion(id, points, zIndex) ==
    LET bounds == getBoundsFromPoints(points)
    IN [id |-> id, type |-> "region", x |-> 0, y |-> 0,
        width |-> bounds.width, height |-> bounds.height,
        zIndex |-> zIndex, opacity |-> 95, visible |-> TRUE, locked |-> FALSE]

initialRegions ==
    << createRegion("region-top", <<120, 60, 220, 60, 250, 150, 90, 150>>, 0),
       createRegion("region-bottom", <<110, 170, 240, 170, 230, 260, 120, 260>>, 1),
       createRegion("region-left-strap", <<110, 60, 130, 60, 110, 20, 90, 20>>, 2),
       createRegion("region-right-strap", <<220, 60, 240, 60, 260, 20, 240, 20>>, 3) >>

initialPresent ==
    [objects |-> initialRegions, selectedId |-> NoId, zoom |-> 10,
     pan |-> [x |-> 0, y |-> 0]]

(* The container useReducer is given at construction. *)
initialState == [past |-> <<>>, present |-> initialPresent, future |-> <<>>]

(***************************************************************************)
(* Array helpers of the reducer                                            *)
(***************************************************************************)
(* objects.find((o) => o.id === id) is not undefined *)
HasId(objects, id) == \E i \in 1..Len(objects) : objects[i].id = id

(* objects.find((o) => o.id === id): the first match *)
FindById(objects, id) ==
    objects[SetMin({i \in 1..Len(objects) : objects[i].id = id})]

(* { ...obj, ...changes } *)
Merge(obj, changes) ==
    [f \in DOMAIN obj \cup DOMAIN changes |->
        IF f \in DOMAIN changes THEN changes[f] ELSE obj[f]]

(* normalizeZIndex that returns the objects with the zIndex they carry. *)
normalizeZIndex_keepsIndex(objects) == objects

normalizeZIndex(objects) ==
    [i \in 1..Len(objects) |-> Merge(objects[i], [zIndex |-> i - 1])]

(* pushHistory that pushes the new snapshot instead of the current one. *)
pushHistory_pushesNext(s, next) ==
    [past |-> Append(s.past, next), present |-> next, future |-> <<>>]

(* pushHistory that leaves future as it was. *)
pushHistory_keepsFuture(s, next) ==
    [past |-> Append(s.past, s.present), present |-> next, future |-> s.future]

(* pushHistory with a history that forgets its oldest snapshot. *)
pushHistory_dropsOldest(s, next) ==
    [past |-> IF Len(s.past) = 0 THEN << s.present >>
              ELSE Append(Tail(s.past), s.present),
     present |-> next, future |-> <<>>]

pushHistory(s, next) ==
    [past |-> Append(s.past, s.present), present |-> next, future |-> <<>>]

(***************************************************************************)
(* The reducer, one operator per case of the switch                        *)
(***************************************************************************)
(* SET_SELECTED that drops the redo entries. *)
SET_SELECTED_clearsFuture(s, action) ==
    [past |-> s.past,
     present |-> [s.present EXCEPT !.selectedId = action.id],
     future |-> <<>>]

(* SET_SELECTED routed through pushHistory like the editing commands. *)
SET_SELECTED_pushesHistory(s, action) ==
    pushHistory(s, [s.present EXCEPT !.selectedId = action.id])

SET_SELECTED(s, action) ==
    [s EXCEPT !.present = [s.present EXCEPT !.selectedId = action.id]]

(* ADD_OBJECT that leaves the selection where it was. *)
ADD_OBJECT_keepsSelection(s, action) ==
    LET objects == normalizeZIndex(
                       Append(s.present.objects,
                              Merge(action.object,
                                    [zIndex |-> Len(s.present.objects)])))
    IN pushHistory(s, [s.present EXCEPT !.objects = objects])

ADD_OBJECT(s, action) ==
    LET objects == normalizeZIndex(
                       Append(s.present.objects,
                              Merge(action.object,
                                    [zIndex |-> Len(s.present.objects)])))
        present == [s.present EXCEPT !.objects = objects,
                                     !.selectedId = action.object.id]
    IN pushHistory(s, present)

(* UPDATE_OBJECT that merges the changes into every object. *)
UPDATE_OBJECT_updatesAll(s, action) ==
    LET objects == normalizeZIndex([i \in 1..Len(s.present.objects) |->
                       Merge(s.present.objects[i], action.changes)])
    IN pushHistory(s, [s.present EXCEPT !.objects = objects])

UPDATE_OBJECT(s, action) ==
    LET upd(obj) == IF obj.id = action.id THEN Merge(obj, action.changes)
                    ELSE obj
        objects == normalizeZIndex([i \in 1..Len(s.present.objects) |->
                                       upd(s.present.objects[i])])
    IN pushHistory(s, [s.present EXCEPT !.objects = objects])

(* DELETE_OBJECT that leaves selectedId alone. *)
DELETE_OBJECT_keepsSelection(s, action) ==
    LET keep(obj) == obj.id # action.id
        objects == normalizeZIndex(SelectSeq(s.present.objects, keep))
    IN pushHistory(s, [s.present EXCEPT !.objects = objects])

DELETE_OBJECT(s, action) ==
    LET keep(obj) == obj.id # action.id
        objects == normalizeZIndex(SelectSeq(s.present.objects, keep))
        selectedId == IF s.present.selectedId = action.id THEN NoId
                      ELSE s.present.selectedId
    IN pushHistory(s, [s.present EXCEPT !.objects = objects,
                                        !.selectedId = selectedId])

BRING_TO_FRONT(s, action) ==
    IF ~HasId(s.present.objects, action.id) THEN s
    ELSE LET target == FindById(s.present.objects, action.id)
             keep(o) == o.id # action.id
             rest == SelectSeq(s.present.objects, keep)
         IN pushHistory(s, [s.present EXCEPT
                               !.objects = normalizeZIndex(Append(rest, target))])

(* SEND_TO_BACK without the early return for a missing target. *)
SEND_TO_BACK_noEarlyReturn(s, action) ==
    LET target == IF HasId(s.present.objects, action.id)
                  THEN <<FindById(s.present.objects, action.id)>> ELSE <<>>
        keep(o) == o.id # action.id
        rest == SelectSeq(s.present.objects, keep)
    IN pushHistory(s, [s.present EXCEPT
                          !.objects = normalizeZIndex(target \o rest)])

SEND_TO_BACK(s, action) ==
    IF ~HasId(s.present.objects, action.id) THEN s
    ELSE LET target == FindById(s.present.objects, action.id)
             keep(o) == o.id # action.id
             rest == SelectSeq(s.present.objects, keep)
         IN pushHistory(s, [s.present EXCEPT
                               !.objects = normalizeZIndex(<<target>> \o rest)])

SET_VISIBILITY(s, action) ==
    LET upd(obj) == IF obj.id = action.id
                    THEN Merge(obj, [visible |-> action.visible]) ELSE obj
        objects == normalizeZIndex([i \in 1..Len(s.present.objects) |->
                                       upd(s.present.objects[i])])
    IN pushHistory(s, [s.present EXCEPT !.objects = objects])

SET_LOCK(s, action) ==
    LET upd(obj) == IF obj.id = action.id
                    THEN Merge(obj, [locked |-> action.locked]) ELSE obj
        objects == normalizeZIndex([i \in 1..Len(s.present.objects) |->
                                       upd(s.present.objects[i])])
    IN pushHistory(s, [s.present EXCEPT !.objects = objects])

SET_ZOOM(s, action) ==
    LET zoom == clamp(action.zoom, 2, 40)
    IN pushHistory(s, [s.present EXCEPT !.zoom = zoom])

SET_VIEWPORT(s, action) ==
    LET zoom == clamp(action.zoom, 2, 40)
    IN pushHistory(s, [s.present EXCEPT !.zoom = zoom, !.pan = action.pan])

SET_PAN(s, action) ==
    pushHistory(s, [s.present EXCEPT !.pan = action.pan])

RESET(s, action) ==
    [past |-> <<>>, present |-> initialPresent, future |-> <<>>]

(* IMPORT_STATE treated as an incremental edit: history is kept. *)
IMPORT_STATE_pushesHistory(s, action) ==
    pushHistory(s, Merge(action.present,
                         [objects |-> normalizeZIndex(action.present.objects)]))

IMPORT_STATE(s, action) ==
    [past |-> <<>>,
     present |-> Merge(action.present,
                       [objects |-> normalizeZIndex(action.present.objects)]),
     future |-> <<>>]

(* UNDO that forgets to put the current snapshot on future. *)
UNDO_dropsPresent(s, action) ==
    IF Len(s.past) = 0 THEN s
    ELSE [past |-> SubSeq(s.past, 1, Len(s.past) - 1),
          present |-> s.past[Len(s.past)],
          future |-> s.future]

(* UNDO whose empty-past check comes after future has been built. *)
UNDO_pushesAtEmptyPast(s, action) ==
    IF Len(s.past) = 0
    THEN [past |-> <<>>, present |-> s.present,
          future |-> <<s.present>> \o s.future]
    ELSE [past |-> SubSeq(s.past, 1, Len(s.past) - 1),
          present |-> s.past[Len(s.past)],
          future |-> <<s.present>> \o s.future]

UNDO(s, action) ==
    IF Len(s.past) = 0 THEN s
    ELSE LET previous == s.past[Len(s.past)]
             past == SubSeq(s.past, 1, Len(s.past) - 1)
             future == <<s.present>> \o s.future
         IN [past |-> past, present |-> previous, future |-> future]

(* REDO that does not put the present back onto past. *)
REDO_dropsPresent(s, action) ==
    IF Len(s.future) = 0 THEN s
    ELSE [past |-> s.past, present |-> s.future[1],
          future |-> SubSeq(s.future, 2, Len(s.future))]

REDO(s, action) ==
    IF Len(s.future) = 0 THEN s
    ELSE LET next == s.future[1]
             future == SubSeq(s.future, 2, Len(s.future))
             past == Append(s.past, s.present)
         IN [past |-> past, present |-> next, future |-> future]

(* CLEAR that removes the other objects but keeps the selection. *)
CLEAR_keepsSelection(s, action) ==
    LET keep(o) == o.type = "region"
    IN pushHistory(s, [s.present EXCEPT
                          !.objects = normalizeZIndex(
                                          SelectSeq(s.present.objects, keep))])

CLEAR(s, action) ==
    LET keep(o) == o.type = "region"
    IN pushHistory(s, [s.present EXCEPT
                          !.objects = normalizeZIndex(
                                          SelectSeq(s.present.objects, keep)),
                          !.selectedId = NoId])

editorReducer(s, action) ==
    CASE action.type = "SET_SELECTED" -> SET_SELECTED(s, action)
      [] action.type = "ADD_OBJECT" -> ADD_OBJECT(s, action)
      [] action.type = "UPDATE_OBJECT" -> UPDATE_OBJECT(s, action)
      [] action.type = "DELETE_OBJECT" -> DELETE_OBJECT(s, action)
      [] action.type = "BRING_TO_FRONT" -> BRING_TO_FRONT(s, action)
      [] action.type = "SEND_TO_BACK" -> SEND_TO_BACK(s, action)
      [] action.type = "SET_VISIBILITY" -> SET_VISIBILITY(s, action)
      [] action.type = "SET_LOCK" -> SET_LOCK(s, action)
      [] action.type = "SET_ZOOM" -> SET_ZOOM(s, action)
      [] action.type = "SET_VIEWPORT" -> SET_VIEWPORT(s, action)
      [] action.type = "SET_PAN" -> SET_PAN(s, action)
      [] action.type = "RESET" -> RESET(s, action)
      [] action.type = "IMPORT_STATE" -> IMPORT_STATE(s, action)
      [] action.type = "UNDO" -> UNDO(s, action)
      [] action.type = "REDO" -> REDO(s, action)
      [] action.type = "CLEAR" -> CLEAR(s, action)
      [] OTHER -> s

(***************************************************************************)
(* Object creation                                                         *)
(***************************************************************************)
(* `${type}-${Date.now()}-${counter}` *)
createId(type, counter) ==
    type \o "-" \o ToString(now) \o "-" \o ToString(counter)

(* createDefaultObject(type, point, counter, overrides): the base object, *)
(* the attributes of the variant, then the overrides.                     *)
createDefaultObject(type, point, counter, overrides) ==
    LET base == [id |-> createId(type, counter), type |-> type,
                 x |-> point.x, y |-> point.y, width |-> 150, height |-> 60,
                 zIndex |-> 0, opacity |-> 100, visible |-> TRUE,
                 locked |-> FALSE]
        variant ==
            CASE type = "text" -> [width |-> 180, height |-> 60]
              [] type = "image" ->
                   [width |-> 180, height |-> 140, fill |-> Undefined]
              [] type = "circle" -> [width |-> 120, height |-> 120]
              [] type = "rect" -> [width |-> 160, height |-> 100]
              [] OTHER -> <<>>
    IN Merge(Merge(base, variant), overrides)

(***************************************************************************)
(* Serialization.  A JSON text is the sequence of its tokens: "{" "}" "[" *)
(* "]", a member key, a string, a number, a boolean or null; a JSON value *)
(* is tagged with its kind (obj, arr, str, num, bool, null).  The         *)
(* separators and the indentation of JSON.stringify(present, null, 2)     *)
(* carry no information and are not represented.                          *)
(***************************************************************************)
(* The attributes of an object in the order JSON.stringify writes them. *)
FieldOrder ==
    <<"id", "type", "x", "y", "width", "height", "zIndex", "opacity",
      "visible", "locked", "fill">>

StringFields == {"id", "type", "fill"}

BooleanFields == {"visible", "locked"}

(* The token of one attribute value, by the JavaScript type of the field. *)
stringifyScalar(field, value) ==
    IF field \in StringFields THEN [t |-> "str", v |-> value]
    ELSE IF field \in BooleanFields THEN [t |-> "bool", v |-> value]
    ELSE [t |-> "num", v |-> value]

(* selectedId: a string, or null *)
stringifyId(id) ==
    IF id = NoId THEN [t |-> "null"] ELSE [t |-> "str", v |-> id]

(* A member whose value is undefined is left out of the text. *)
RECURSIVE stringifyFields(_, _)
stringifyFields(obj, k) ==
    IF k > Len(FieldOrder) THEN <<>>
    ELSE IF /\ FieldOrder[k] \in DOMAIN obj
            /\ ~(FieldOrder[k] = "fill" /\ obj[FieldOrder[k]] = Undefined)
         THEN << [t |-> "key", v |-> FieldOrder[k]],
                 stringifyScalar(FieldOrder[k], obj[FieldOrder[k]]) >>
              \o stringifyFields(obj, k + 1)
         ELSE stringifyFields(obj, k + 1)

stringifyObject(obj) ==
    << [t |-> "{"] >> \o stringifyFields(obj, 1) \o << [t |-> "}"] >>

RECURSIVE stringifyObjects(_, _)
stringifyObjects(objects, i) ==
    IF i > Len(objects) THEN <<>>
    ELSE stringifyObject(objects[i]) \o stringifyObjects(objects, i + 1)

stringifyPan(pan) ==
    << [t |-> "{"], [t |-> "key", v |-> "x"], [t |-> "num", v |-> pan.x],
       [t |-> "key", v |-> "y"], [t |-> "num", v |-> pan.y], [t |-> "}"] >>

(* JSON.stringify(present, null, 2) *)
serializeState(present) ==
    << [t |-> "{"], [t |-> "key", v |-> "objects"], [t |-> "["] >>
    \o stringifyObjects(present.objects, 1)
    \o << [t |-> "]"], [t |-> "key", v |-> "selectedId"],
          stringifyId(present.selectedId),
          [t |-> "key", v |-> "zoom"], [t |-> "num", v |-> present.zoom],
          [t |-> "key", v |-> "pan"] >>
    \o stringifyPan(present.pan)
    \o << [t |-> "}"] >>

(* The result of a parse that throws. *)
ParseFail == [ok |-> FALSE, val |-> [t |-> "null"], next |-> 0]

(* JSON.parse by recursive descent from token i: the value read and the   *)
(* index after it.  In an object a repeated key keeps its last value.     *)
RECURSIVE ParseValue(_, _), ParseMembers(_, _, _), ParseElements(_, _, _)
ParseValue(text, i) ==
    IF i > Len(text) THEN ParseFail
    ELSE CASE text[i].t \in {"str", "num", "bool"} ->
                [ok |-> TRUE, val |-> text[i], next |-> i + 1]
           [] text[i].t = "null" ->
                [ok |-> TRUE, val |-> [t |-> "null"], next |-> i + 1]
           [] text[i].t = "{" -> ParseMembers(text, i + 1, <<>>)
           [] text[i].t = "[" -> ParseElements(text, i + 1, <<>>)
           [] OTHER -> ParseFail

ParseMembers(text, i, acc) ==
    IF i > Len(text) THEN ParseFail
    ELSE IF text[i].t = "}"
         THEN [ok |-> TRUE, val |-> [t |-> "obj", v |-> acc], next |-> i + 1]
    ELSE IF text[i].t = "key"
         THEN LET r == ParseValue(text, i + 1)
              IN IF r.ok
                 THEN ParseMembers(text, r.next,
                                   (text[i].v :> r.val) @@ acc)
                 ELSE ParseFail
    ELSE ParseFail

ParseElements(text, i, acc) ==
    IF i > Len(text) THEN ParseFail
    ELSE IF text[i].t = "]"
         THEN [ok |-> TRUE, val |-> [t |-> "arr", v |-> acc], next |-> i + 1]
    ELSE LET r == ParseValue(text, i)
         IN IF r.ok THEN ParseElements(text, r.next, Append(acc, r.val))
            ELSE ParseFail

(* JSON.parse(json): throws unless the whole text is one value. *)
JSONparse(text) ==
    LET r == ParseValue(text, 1)
    IN IF r.ok /\ r.next = Len(text) + 1 THEN r ELSE ParseFail

(* The JavaScript value of a parsed JSON value. *)
RECURSIVE fromJSON(_)
fromJSON(j) ==
    CASE j.t = "obj" -> [k \in DOMAIN j.v |-> fromJSON(j.v[k])]
      [] j.t = "arr" -> [i \in 1..Len(j.v) |-> fromJSON(j.v[i])]
      [] j.t = "null" -> NoId
      [] OTHER -> j.v

(* { ...element }: the own properties of an array element; a number, a    *)
(* boolean or null spreads to nothing.                                    *)
spreadElement(j) == IF j.t = "obj" THEN fromJSON(j) ELSE <<>>

(* Variant of parseState that keeps the zIndex values of the text. *)
parseState_keepsZIndex(json) ==
    LET p == JSONparse(json)
        thrown == [ok |-> FALSE, present |-> <<>>]
    IN IF ~p.ok THEN thrown
       ELSE IF p.val.t = "null" THEN thrown
       ELSE IF p.val.t # "obj" THEN [ok |-> TRUE, present |-> [objects |-> <<>>]]
       ELSE IF "objects" \notin DOMAIN p.val.v \/ p.val.v["objects"].t = "null"
            THEN [ok |-> TRUE,
                  present |-> Merge(fromJSON(p.val), [objects |-> <<>>])]
       ELSE IF p.val.v["objects"].t # "arr" THEN thrown
       ELSE [ok |-> TRUE, present |-> fromJSON(p.val)]

(* Variant of parseState that throws when objects is absent or null. *)
parseState_requiresObjects(json) ==
    LET p == JSONparse(json)
        thrown == [ok |-> FALSE, present |-> <<>>]
    IN IF ~p.ok THEN thrown
       ELSE IF p.val.t # "obj" THEN thrown
       ELSE IF "objects" \notin DOMAIN p.val.v THEN thrown
       ELSE IF p.val.v["objects"].t # "arr" THEN thrown
       ELSE LET elems == p.val.v["objects"].v
                objects == [i \in 1..Len(elems) |-> spreadElement(elems[i])]
            IN [ok |-> TRUE,
                present |-> Merge(fromJSON(p.val),
                                  [objects |-> normalizeZIndex(objects)])]

(* parseState(json): ok is FALSE when it throws (a SyntaxError of         *)
(* JSON.parse, or a TypeError when the parsed value is null or its        *)
(* objects member is neither absent, null nor an array).  A top-level     *)
(* number or boolean spreads to nothing; top-level strings and arrays     *)
(* are not among the inputs.                                              *)
parseState(json) ==
    LET p == JSONparse(json)
        thrown == [ok |-> FALSE, present |-> <<>>]
    IN IF ~p.ok THEN thrown
       ELSE IF p.val.t = "null" THEN thrown
       ELSE IF p.val.t # "obj"
            THEN [ok |-> TRUE, present |-> [objects |-> normalizeZIndex(<<>>)]]
       ELSE IF "objects" \notin DOMAIN p.val.v \/ p.val.v["objects"].t = "null"
            THEN [ok |-> TRUE,
                  present |-> Merge(fromJSON(p.val),
                                    [objects |-> normalizeZIndex(<<>>)])]
       ELSE IF p.val.v["objects"].t # "arr" THEN thrown
       ELSE LET elems == p.val.v["objects"].v
                objects == [i \in 1..Len(elems) |-> spreadElement(elems[i])]
            IN [ok |-> TRUE,
                present |-> Merge(fromJSON(p.val),
                                  [objects |-> normalizeZIndex(objects)])]

(* Variant of handleImport that resets the editor when parsing throws. *)
handleImport_resetsOnError(text) ==
    IF Len(text) = 0 THEN <<>>
    ELSE LET imported == parseState(text)
         IN IF imported.ok
            THEN << [type |-> "IMPORT_STATE", present |-> imported.present] >>
            ELSE << [type |-> "RESET"] >>

(* handleImport of the top bar, given the text the prompt returned (the   *)
(* empty text stands for a cancelled or empty prompt): the commands it    *)
(* dispatches.                                                            *)
handleImport(text) ==
    IF Len(text) = 0 THEN <<>>
    ELSE LET imported == parseState(text)
         IN IF imported.ok
            THEN << [type |-> "IMPORT_STATE", present |-> imported.present] >>
            ELSE <<>>

(***************************************************************************)
(* Command inputs                                                          *)
(***************************************************************************)
(* Ids a command can name: a region of the initial document, the id of an *)
(* object the session can add, and an id no object ever carries.          *)
ObjectIds == {"region-top", "rect-1", "ghost"}

SelectIds == ObjectIds \cup {NoId}

(* Objects handed to addObject: a rect as createDefaultObject builds it   *)
(* (zIndex 0) and a text object carrying an arbitrary zIndex.             *)
NewObjects ==
    { [id |-> "rect-1", type |-> "rect", x |-> 92, y |-> 92,
       width |-> 160, height |-> 100, zIndex |-> 0, opacity |-> 100,
       visible |-> TRUE, locked |-> FALSE],
      [id |-> "text-2", type |-> "text", x |-> 104, y |-> 104,
       width |-> 180, height |-> 60, zIndex |-> 9, opacity |-> 100,
       visible |-> TRUE, locked |-> FALSE],
      [id |-> "image-3", type |-> "image", x |-> 116, y |-> 116,
       width |-> 180, height |-> 140, zIndex |-> 0, opacity |-> 100,
       visible |-> TRUE, locked |-> FALSE, fill |-> Undefined] }

(* Partial<EditorObject> values handed to updateObject. *)
Changes == { [zIndex |-> 7], [x |-> 5, y |-> 5] }

ZoomValues == {-10, 10, 15, 100}

PanValues == { [x |-> 0, y |-> 0], [x |-> 5, y |-> -3] }

ViewportValues ==
    { [zoom |-> 15, pan |-> [x |-> 5, y |-> -3]],
      [zoom |-> 100, pan |-> [x |-> 5, y |-> -3]] }

(* Snapshots handed to importState: one whose objects carry stale zIndex  *)
(* values, and one with no objects.                                       *)
ImportedStates ==
    { [objects |-> << [id |-> "rect-1", type |-> "rect", x |-> 10, y |-> 20,
                       width |-> 160, height |-> 100, zIndex |-> 5,
                       opacity |-> 100, visible |-> TRUE, locked |-> FALSE],
                      [id |-> "region-top", type |-> "region", x |-> 0, y |-> 0,
                       width |-> 160, height |-> 90, zIndex |-> 5,
                       opacity |-> 95, visible |-> TRUE, locked |-> TRUE] >>,
       selectedId |-> "rect-1", zoom |-> 50, pan |-> [x |-> 5, y |-> -3]],
      [objects |-> <<>>, selectedId |-> NoId, zoom |-> 10,
       pan |-> [x |-> 0, y |-> 0]] }

(* A snapshot exported earlier and edited by hand: two regions among     *)
(* three other objects, with stale zIndex values.                         *)
PastedSnapshot ==
    [objects |-> << [id |-> "rect-1", type |-> "rect", x |-> 10, y |-> 20,
                     width |-> 160, height |-> 100, zIndex |-> 4,
                     opacity |-> 100, visible |-> TRUE, locked |-> FALSE],
                    [id |-> "region-top", type |-> "region", x |-> 0, y |-> 0,
                     width |-> 160, height |-> 90, zIndex |-> 0,
                     opacity |-> 95, visible |-> TRUE, locked |-> TRUE],
                    [id |-> "text-2", type |-> "text", x |-> 30, y |-> 40,
                     width |-> 200, height |-> 40, zIndex |-> 7,
                     opacity |-> 100, visible |-> FALSE, locked |-> FALSE],
                    [id |-> "region-bottom", type |-> "region", x |-> 0,
                     y |-> 90, width |-> 160, height |-> 90, zIndex |-> 1,
                     opacity |-> 95, visible |-> TRUE, locked |-> TRUE],
                    [id |-> "circle-3", type |-> "circle", x |-> 50, y |-> 60,
                     width |-> 120, height |-> 120, zIndex |-> 2,
                     opacity |-> 50, visible |-> TRUE, locked |-> TRUE] >>,
     selectedId |-> "text-2", zoom |-> 15, pan |-> [x |-> 5, y |-> -3]]

(* The export of PastedSnapshot. *)
PastedText == serializeState(PastedSnapshot)

(* A paste that stops inside the first object of the export. *)
TruncatedText == SubSeq(PastedText, 1, 8)

(* What the user answers to the prompt of handleImport. *)
PromptAnswers ==
    {"cancel", "keep", "truncated", "pasted", "no-objects", "null-objects",
     "null"}

(* The members of a payload after its objects member. *)
PayloadTail ==
    << [t |-> "key", v |-> "selectedId"], [t |-> "null"],
       [t |-> "key", v |-> "zoom"], [t |-> "num", v |-> 15],
       [t |-> "key", v |-> "pan"] >>
    \o stringifyPan([x |-> 5, y |-> -3]) \o << [t |-> "}"] >>

(* The text window.prompt returns for an answer; the prompt is prefilled  *)
(* with the serialization of the current snapshot.                        *)
PromptText(answer, present) ==
    LET existing == serializeState(present)
    IN CASE answer = "cancel" -> <<>>
         [] answer = "keep" -> existing
         [] answer = "truncated" -> TruncatedText
         [] answer = "pasted" -> PastedText
         [] answer = "no-objects" -> << [t |-> "{"] >> \o PayloadTail
         [] answer = "null-objects" ->
              << [t |-> "{"], [t |-> "key", v |-> "objects"], [t |-> "null"] >>
              \o PayloadTail
         [] answer = "null" -> << [t |-> "null"] >>

(***************************************************************************)
(* The state machine: one action per command intent of useEditorActions   *)
(***************************************************************************)
Init ==
    /\ state = initialState
    /\ prev = initialState
    /\ last = [type |-> "INIT"]
    /\ steps = 0
    /\ now = 0
    /\ quickCounter = 0
    /\ dropCounter = 0

(* The reducer runs to completion on the current container; prev and     *)
(* last record the container and command of the step.                     *)
reduce(action) ==
    /\ state' = editorReducer(state, action)
    /\ prev' = state
    /\ last' = action
    /\ steps' = steps + 1

(* dispatch(action) from a command intent: nothing outside the reducer    *)
(* changes.                                                               *)
dispatch(action) ==
    /\ reduce(action)
    /\ UNCHANGED session

select(id) ==
    /\ steps < MaxSteps
    /\ dispatch([type |-> "SET_SELECTED", id |-> id])

addObject(object) ==
    /\ steps < MaxSteps
    /\ dispatch([type |-> "ADD_OBJECT", object |-> object])

updateObject(id, changes) ==
    /\ steps < MaxSteps
    /\ dispatch([type |-> "UPDATE_OBJECT", id |-> id, changes |-> changes])

deleteObject(id) ==
    /\ steps < MaxSteps
    /\ dispatch([type |-> "DELETE_OBJECT", id |-> id])

bringToFront(id) ==
    /\ steps < MaxSteps
    /\ dispatch([type |-> "BRING_TO_FRONT", id |-> id])

sendToBack(id) ==
    /\ steps < MaxSteps
    /\ dispatch([type |-> "SEND_TO_BACK", id |-> id])

setVisibility(id, visible) ==
    /\ steps < MaxSteps
    /\ dispatch([type |-> "SET_VISIBILITY", id |-> id, visible |-> visible])

setLock(id, locked) ==
    /\ steps < MaxSteps
    /\ dispatch([type |-> "SET_LOCK", id |-> id, locked |-> locked])

setZoom(zoom) ==
    /\ steps < MaxSteps
    /\ dispatch([type |-> "SET_ZOOM", zoom |-> zoom])

setViewport(zoom, pan) ==
    /\ steps < MaxSteps
    /\ dispatch([type |-> "SET_VIEWPORT", zoom |-> zoom, pan |-> pan])

setPan(pan) ==
    /\ steps < MaxSteps
    /\ dispatch([type |-> "SET_PAN", pan |-> pan])

reset ==
    /\ steps < MaxSteps
    /\ dispatch([type |-> "RESET"])

clearAll ==
    /\ steps < MaxSteps
    /\ dispatch([type |-> "CLEAR"])

undo ==
    /\ steps < MaxSteps
    /\ dispatch([type |-> "UNDO"])

redo ==
    /\ steps < MaxSteps
    /\ dispatch([type |-> "REDO"])

importState(present) ==
    /\ steps < MaxSteps
    /\ dispatch([type |-> "IMPORT_STATE", present |-> present])

(* The Import JSON button: handleImport runs with the prompt's answer and *)
(* the commands it dispatches go through the reducer; last records the    *)
(* types of the commands dispatched.                                      *)
clickImportJSON(answer) ==
    /\ steps < MaxSteps
    /\ LET dispatched == handleImport(PromptText(answer, state.present))
       IN /\ state' = IF Len(dispatched) = 0 THEN state
                      ELSE editorReducer(state, dispatched[1])
          /\ last' = [type |-> "handleImport", answer |-> answer,
                      dispatched |->
                          [i \in 1..Len(dispatched) |-> dispatched[i].type]]
    /\ prev' = state
    /\ steps' = steps + 1
    /\ UNCHANGED session

Next ==
    \/ \E id \in SelectIds : select(id)
    \/ clearAll
    \/ \E object \in NewObjects : addObject(object)
    \/ \E id \in ObjectIds, changes \in Changes : updateObject(id, changes)
    \/ \E id \in ObjectIds : deleteObject(id)
    \/ \E id \in ObjectIds : bringToFront(id)
    \/ \E id \in ObjectIds : sendToBack(id)
    \/ \E id \in ObjectIds, visible \in BOOLEAN : setVisibility(id, visible)
    \/ \E id \in ObjectIds, locked \in BOOLEAN : setLock(id, locked)
    \/ \E zoom \in ZoomValues : setZoom(zoom)
    \/ \E v \in ViewportValues : setViewport(v.zoom, v.pan)
    \/ \E pan \in PanValues : setPan(pan)
    \/ reset
    \/ undo
    \/ redo
    \/ \E present \in ImportedStates : importState(present)
    \/ \E answer \in PromptAnswers : clickImportJSON(answer)

Spec == Init /\ [][Next]_vars

(***************************************************************************)
(* The reducer under callers that pass it any well-typed value            *)
(***************************************************************************)
(* Partial<EditorObject> values no panel of the editor produces: an       *)
(* opacity outside [0, 1], a size, an id.                                 *)
ArbitraryChanges ==
    { [opacity |-> 150], [opacity |-> -20], [width |-> 300, height |-> 20],
      [id |-> "renamed"] }

ArbitraryObjects ==
    { [id |-> "rect-1", type |-> "rect", x |-> 92, y |-> 92,
       width |-> 160, height |-> 100, zIndex |-> 0, opacity |-> 250,
       visible |-> TRUE, locked |-> FALSE] }

ArbitraryStates ==
    { [objects |-> << [id |-> "circle-3", type |-> "circle", x |-> 50,
                       y |-> 60, width |-> 120, height |-> 120, zIndex |-> 0,
                       opacity |-> -5, visible |-> TRUE, locked |-> FALSE] >>,
       selectedId |-> NoId, zoom |-> 10, pan |-> [x |-> 0, y |-> 0]] }

NextArbitrary ==
    \/ \E id \in {"region-top", "rect-1"}, changes \in ArbitraryChanges :
          updateObject(id, changes)
    \/ \E object \in NewObjects \cup ArbitraryObjects : addObject(object)
    \/ \E present \in ArbitraryStates : importState(present)
    \/ \E id \in {"region-top", "rect-1"} : deleteObject(id)
    \/ \E id \in {"region-top", "rect-1"} : bringToFront(id)
    \/ undo
    \/ redo

SpecArbitrary == Init /\ [][NextArbitrary]_vars

(***************************************************************************)
(* Object creation from the sidebar and the canvas                        *)
(***************************************************************************)
(* The assets of the sidebar: type and the part of the preset that the    *)
(* model carries (the pattern images preset a size).                      *)
assets ==
    << [type |-> "text", preset |-> <<>>],
       [type |-> "rect", preset |-> <<>>],
       [type |-> "circle", preset |-> <<>>],
       [type |-> "image", preset |-> <<>>],
       [type |-> "image", preset |-> [width |-> 200, height |-> 200]] >>

(* Where a drop lands, in document coordinates. *)
DropPoints == { [x |-> 40, y |-> 30] }

(* Date.now() moves on between two events. *)
tick ==
    /\ steps < MaxSteps
    /\ now' = now + 1
    /\ steps' = steps + 1
    /\ prev' = state
    /\ last' = [type |-> "tick"]
    /\ UNCHANGED <<state, quickCounter, dropCounter>>

(* The Add button of asset a. *)
handleQuickAdd(a) ==
    /\ steps < MaxSteps
    /\ quickCounter' = quickCounter + 1
    /\ reduce([type |-> "ADD_OBJECT",
               object |-> createDefaultObject(
                              assets[a].type,
                              [x |-> 80 + quickCounter' * 12,
                               y |-> 80 + quickCounter' * 12],
                              quickCounter', assets[a].preset)])
    /\ UNCHANGED <<now, dropCounter>>

(* A drop on the canvas carrying asset a; a = 0 is a drop without an      *)
(* editor payload, which returns at once.                                 *)
onDrop(a, point) ==
    /\ steps < MaxSteps
    /\ IF a = 0
       THEN /\ prev' = state
            /\ last' = [type |-> "onDrop"]
            /\ steps' = steps + 1
            /\ UNCHANGED <<state, dropCounter>>
       ELSE /\ dropCounter' = dropCounter + 1
            /\ reduce([type |-> "ADD_OBJECT",
                       object |-> createDefaultObject(
                                      assets[a].type, point, dropCounter',
                                      assets[a].preset)])
    /\ UNCHANGED <<now, quickCounter>>

NextCreation ==
    \/ tick
    \/ \E a \in 1..Len(assets) : handleQuickAdd(a)
    \/ \E a \in 0..Len(assets), point \in DropPoints : onDrop(a, point)

(* Sessions of quick-adds and drops under a clock that never goes back. *)
SpecCreation == Init /\ [][NextCreation]_vars

(***************************************************************************)
(* Properties                                                              *)
(***************************************************************************)
UndoCmd == [type |-> "UNDO"]

RedoCmd == [type |-> "REDO"]

(* The commands the reducer routes through pushHistory. *)
HistoryTypes ==
    {"ADD_OBJECT", "UPDATE_OBJECT", "DELETE_OBJECT", "BRING_TO_FRONT",
     "SEND_TO_BACK", "SET_VISIBILITY", "SET_LOCK", "SET_ZOOM", "SET_VIEWPORT",
     "SET_PAN", "CLEAR"}

ReorderTypes == {"BRING_TO_FRONT", "SEND_TO_BACK"}

ById == {"UPDATE_OBJECT", "DELETE_OBJECT", "SET_VISIBILITY", "SET_LOCK"}

(* The last command named an id that the document it was applied to has. *)
LastIdPresent == HasId(prev.present.objects, last.id)

(* Same objects, zoom and pan; selectedId is not compared. *)
SameButSelection(p, q) ==
    p.objects = q.objects /\ p.zoom = q.zoom /\ p.pan = q.pan

(* C1: after any command sequence, the object at array position i of     *)
(* present has zIndex i, for every object count.                          *)
C1_ZIndexIsPosition ==
    \A i \in 1..Len(state.present.objects) :
        state.present.objects[i].zIndex = i - 1

(* An update that carried a zIndex has been applied to an object of the   *)
(* document.                                                              *)
C1_Witness ==
    /\ last.type = "UPDATE_OBJECT"
    /\ "zIndex" \in DOMAIN last.changes
    /\ LastIdPresent
    /\ Len(state.present.objects) > 1

(* C2: UNDO after a history-producing command that pushed history gives  *)
(* back the present and the past the command was applied to; after add A, *)
(* delete A, UNDO gives the post-add snapshot with A present and selected.*)
C2_UndoReversesCommand ==
    /\ (/\ last.type \in HistoryTypes
        /\ (last.type \in ReorderTypes => LastIdPresent))
       => /\ UNDO(state, UndoCmd).present = prev.present
          /\ UNDO(state, UndoCmd).past = prev.past
    /\ last.type = "ADD_OBJECT"
       => LET deleted == DELETE_OBJECT(state, [type |-> "DELETE_OBJECT",
                                               id |-> last.object.id])
              undone == UNDO(deleted, UndoCmd)
          IN /\ undone.present = state.present
             /\ HasId(undone.present.objects, last.object.id)
             /\ undone.present.selectedId = last.object.id

(* The selected object, added earlier in the session, has been deleted.   *)
C2_Witness ==
    /\ last.type = "DELETE_OBJECT"
    /\ LastIdPresent
    /\ prev.present.selectedId = last.id
    /\ Len(prev.past) > 0
    /\ ~HasId(state.present.objects, last.id)

(* C3: REDO after UNDO restores the whole container when past is not     *)
(* empty, and UNDO after REDO restores it when future is not empty.       *)
C3_UndoRedoInverse ==
    /\ Len(state.past) > 0
       => REDO(UNDO(state, UndoCmd), RedoCmd) = state
    /\ Len(state.future) > 0
       => UNDO(REDO(state, RedoCmd), UndoCmd) = state

(* An undo has left snapshots on both sides of present.                   *)
C3_Witness ==
    /\ last.type = "UNDO"
    /\ Len(state.past) > 0
    /\ Len(state.future) > 0
    /\ state.present # state.future[1]

(* C4: UNDO with an empty past and REDO with an empty future return the  *)
(* container unchanged.                                                   *)
C4_NavigationAtEnds ==
    /\ (last.type = "UNDO" /\ Len(prev.past) = 0) => state = prev
    /\ (last.type = "REDO" /\ Len(prev.future) = 0) => state = prev
    /\ Len(state.past) = 0 => UNDO(state, UndoCmd) = state
    /\ Len(state.future) = 0 => REDO(state, RedoCmd) = state

(* UNDO has been dispatched on an empty past while redo entries existed.  *)
C4_Witness ==
    /\ last.type = "UNDO"
    /\ Len(prev.past) = 0
    /\ Len(prev.future) > 0

(* C5: a history-producing command (with its id present, when it names   *)
(* one) appends the prior present to past, empties future, and leaves     *)
(* nothing for an immediate REDO.                                         *)
C5_CommandPushesAndClearsFuture ==
    (/\ last.type \in HistoryTypes
     /\ (last.type \in ReorderTypes \cup ById => LastIdPresent))
    => /\ state.past = Append(prev.past, prev.present)
       /\ Len(state.past) = Len(prev.past) + 1
       /\ state.future = <<>>
       /\ REDO(state, RedoCmd) = state

(* A command changed an object of the document while redo entries were    *)
(* pending.                                                               *)
C5_Witness ==
    /\ last.type = "SET_LOCK"
    /\ LastIdPresent
    /\ Len(prev.future) > 0
    /\ state.present # prev.present

(* C6: SET_SELECTED changes nothing but present.selectedId.               *)
C6_SelectFrame ==
    last.type = "SET_SELECTED"
    => /\ state.past = prev.past
       /\ state.future = prev.future
       /\ Len(state.past) = Len(prev.past)
       /\ SameButSelection(state.present, prev.present)
       /\ state.present.selectedId = last.id

(* A selection change has been made with undo entries present.            *)
C6_Witness ==
    /\ last.type = "SET_SELECTED"
    /\ last.id # prev.present.selectedId
    /\ Len(prev.past) > 1

(* C7 as stated: no reachable state with a non-empty past in which UNDO   *)
(* yields a present that differs from the current one only in selectedId. *)
C7_UndoNeverRestoresSelectionAlone ==
    Len(state.past) > 0
    => ~(/\ SameButSelection(UNDO(state, UndoCmd).present, state.present)
         /\ UNDO(state, UndoCmd).present.selectedId # state.present.selectedId)

(* C7 as amended: a selection change adds nothing to past or future, so   *)
(* with a non-empty past UNDO after SET_SELECTED gives the same past and  *)
(* present as UNDO before it: undo steps over the selection change, never *)
(* back to it.                                                            *)
C7_SelectionNotRecorded ==
    last.type = "SET_SELECTED"
    => /\ state.past = prev.past
       /\ state.future = prev.future
       /\ Len(prev.past) > 0
          => /\ UNDO(state, UndoCmd).past = UNDO(prev, UndoCmd).past
             /\ UNDO(state, UndoCmd).present = UNDO(prev, UndoCmd).present

(* A selection was changed after a command that left objects, zoom and    *)
(* pan as they were, so UNDO would now change selectedId alone.           *)
C7_Witness ==
    /\ last.type = "SET_SELECTED"
    /\ Len(state.past) > 0
    /\ SameButSelection(UNDO(state, UndoCmd).present, state.present)
    /\ UNDO(state, UndoCmd).present.selectedId # state.present.selectedId

(* C8: RESET and IMPORT_STATE empty past and future; RESET installs the   *)
(* initial snapshot; IMPORT_STATE installs the supplied selectedId, zoom, *)
(* pan and the supplied objects with zIndex set to array position.        *)
C8_ResetImportDiscardHistory ==
    /\ last.type \in {"RESET", "IMPORT_STATE"}
       => /\ state.past = <<>>
          /\ state.future = <<>>
          /\ UNDO(state, UndoCmd) = state
          /\ REDO(state, RedoCmd) = state
    /\ last.type = "RESET"
       => /\ Len(state.present.objects) = 4
          /\ \A i \in 1..4 : state.present.objects[i].type = "region"
          /\ [i \in 1..4 |-> state.present.objects[i].id]
                = <<"region-top", "region-bottom", "region-left-strap",
                    "region-right-strap">>
          /\ state.present.selectedId = NoId
          /\ state.present.zoom = 10
          /\ state.present.pan = [x |-> 0, y |-> 0]
    /\ last.type = "IMPORT_STATE"
       => /\ state.present.selectedId = last.present.selectedId
          /\ state.present.zoom = last.present.zoom
          /\ state.present.pan = last.present.pan
          /\ Len(state.present.objects) = Len(last.present.objects)
          /\ \A i \in 1..Len(last.present.objects) :
                state.present.objects[i]
                    = Merge(last.present.objects[i], [zIndex |-> i - 1])

(* A snapshot with stale zIndex values was imported over a container that *)
(* held undo and redo entries.                                            *)
C8_Witness ==
    /\ last.type = "IMPORT_STATE"
    /\ Len(prev.past) + Len(prev.future) > 1
    /\ \E i \in 1..Len(last.present.objects) :
          last.present.objects[i].zIndex # i - 1

(* C9 as stated: UPDATE_OBJECT, DELETE_OBJECT, SET_VISIBILITY and         *)
(* SET_LOCK with an id no object has return the container unchanged.      *)
C9_MissingIdIsNoOp ==
    (last.type \in ById /\ ~LastIdPresent) => state = prev

(* C10: BRING_TO_FRONT and SEND_TO_BACK with an id no object has return   *)
(* the container unchanged.                                               *)
C10_ReorderMissingIdIsNoOp ==
    (last.type \in ReorderTypes /\ ~LastIdPresent) => state = prev

(* A reorder named a missing id while redo entries were pending.          *)
C10_Witness ==
    /\ last.type = "SEND_TO_BACK"
    /\ ~LastIdPresent
    /\ Len(prev.future) > 0

(* Every snapshot the container holds: past, present and future. *)
Snapshots(c) ==
    {c.present} \cup {c.past[i] : i \in 1..Len(c.past)}
                \cup {c.future[i] : i \in 1..Len(c.future)}

(* Math.min(Math.max(v, 0.2), 4) written out by cases. *)
ClampedZoom(v) == IF v < 2 THEN 2 ELSE IF v > 40 THEN 40 ELSE v

(* The indices of objs whose object satisfies the test, in increasing     *)
(* order: Nth(S, j) is the j-th smallest element of the index set S.      *)
Nth(S, j) == CHOOSE i \in S : Cardinality({k \in S : k <= i}) = j

(* C11 as stated: the zoom of present and of every snapshot in past and   *)
(* future lies in [0.2, 4].                                               *)
C11_ZoomInRange ==
    \A snap \in Snapshots(state) : snap.zoom >= 2 /\ snap.zoom <= 40

(* C12: SET_ZOOM stores the clamped zoom and keeps pan; SET_VIEWPORT      *)
(* stores the clamped zoom and the given pan in one history entry;        *)
(* SET_PAN stores the given pan and keeps zoom; objects and selectedId    *)
(* are kept by all three.                                                 *)
C12_ViewportCommands ==
    /\ last.type = "SET_ZOOM"
       => /\ state.present.zoom = ClampedZoom(last.zoom)
          /\ (last.zoom = 100 => state.present.zoom = 40)
          /\ (last.zoom = -10 => state.present.zoom = 2)
          /\ state.present.pan = prev.present.pan
    /\ last.type = "SET_VIEWPORT"
       => /\ state.present.zoom = ClampedZoom(last.zoom)
          /\ state.present.pan = last.pan
          /\ state.past = Append(prev.past, prev.present)
    /\ last.type = "SET_PAN"
       => /\ state.present.pan = last.pan
          /\ state.present.zoom = prev.present.zoom
    /\ last.type \in {"SET_ZOOM", "SET_VIEWPORT", "SET_PAN"}
       => /\ state.present.objects = prev.present.objects
          /\ state.present.selectedId = prev.present.selectedId

(* A viewport command asked for a zoom above the range and a new pan.     *)
C12_Witness ==
    /\ last.type = "SET_VIEWPORT"
    /\ last.zoom > 40
    /\ last.pan # prev.present.pan
    /\ prev.present.zoom # 40
    /\ prev.present.selectedId # NoId

(* C13 as stated: no two objects of one snapshot (present, or an entry of *)
(* past or future) have the same id.                                      *)
C13_UniqueIds ==
    \A snap \in Snapshots(state) :
        \A i, j \in 1..Len(snap.objects) :
            snap.objects[i].id = snap.objects[j].id => i = j

(* C14: CLEAR leaves exactly the region objects of the prior present, in  *)
(* their prior order, with zIndex 0..k-1 and no selection; zoom and pan   *)
(* are kept and the prior present is pushed onto past.                    *)
C14_ClearKeepsRegions ==
    last.type = "CLEAR"
    => LET old == prev.present.objects
           new == state.present.objects
           regions == {i \in 1..Len(old) : old[i].type = "region"}
       IN /\ Len(new) = Cardinality(regions)
          /\ \A j \in 1..Len(new) :
                /\ new[j] = Merge(old[Nth(regions, j)], [zIndex |-> j - 1])
                /\ new[j].type = "region"
                /\ new[j].zIndex = j - 1
          /\ state.present.selectedId = NoId
          /\ state.present.zoom = prev.present.zoom
          /\ state.present.pan = prev.present.pan
          /\ state.past = Append(prev.past, prev.present)
          /\ (Cardinality(regions) = 2 /\ Len(old) = 5)
             => /\ Len(new) = 2
                /\ new[1].zIndex = 0
                /\ new[2].zIndex = 1

(* CLEAR was applied to two regions mixed with three other objects, one   *)
(* of them selected.                                                      *)
C14_Witness ==
    /\ last.type = "CLEAR"
    /\ Len(prev.present.objects) = 5
    /\ Cardinality({i \in 1..5 : prev.present.objects[i].type = "region"}) = 2
    /\ prev.present.objects[1].type # "region"
    /\ prev.present.selectedId # NoId

(* C15 as stated: BRING_TO_FRONT with the id present puts that object at  *)
(* the last position (zIndex n-1), SEND_TO_BACK at position 0, every      *)
(* other object kept in its relative order; UNDO then restores the prior  *)
(* order and REDO reproduces the reordered one.                           *)
C15_ReorderMovesTarget ==
    (last.type \in ReorderTypes /\ LastIdPresent)
    => LET old == prev.present.objects
           new == state.present.objects
           n == Len(old)
           p == SetMin({i \in 1..n : old[i].id = last.id})
           others == (1..n) \ {p}
       IN /\ Len(new) = n
          /\ last.type = "BRING_TO_FRONT"
             => /\ new[n] = Merge(old[p], [zIndex |-> n - 1])
                /\ \A j \in 1..(n - 1) :
                      new[j] = Merge(old[Nth(others, j)], [zIndex |-> j - 1])
          /\ last.type = "SEND_TO_BACK"
             => /\ new[1] = Merge(old[p], [zIndex |-> 0])
                /\ \A j \in 2..n :
                      new[j] = Merge(old[Nth(others, j - 1)], [zIndex |-> j - 1])
          /\ UNDO(state, UndoCmd).present.objects = old
          /\ REDO(UNDO(state, UndoCmd), RedoCmd).present.objects = new

(* C16: ADD_OBJECT keeps the n prior objects in order, appends the new    *)
(* object with zIndex n whatever zIndex it carried, selects it, and keeps *)
(* zoom and pan.                                                          *)
C16_AddAppendsAndSelects ==
    last.type = "ADD_OBJECT"
    => LET old == prev.present.objects
           new == state.present.objects
           n == Len(old)
       IN /\ Len(new) = n + 1
          /\ \A i \in 1..n : new[i] = old[i]
          /\ new[n + 1] = Merge(last.object, [zIndex |-> n])
          /\ new[n + 1].zIndex = n
          /\ state.present.selectedId = last.object.id
          /\ state.present.zoom = prev.present.zoom
          /\ state.present.pan = prev.present.pan

(* An object carrying a zIndex other than the object count was added      *)
(* while another object was selected.                                     *)
C16_Witness ==
    /\ last.type = "ADD_OBJECT"
    /\ last.object.zIndex # Len(prev.present.objects)
    /\ last.object.zIndex # 0
    /\ prev.present.selectedId \notin {NoId, last.object.id}
    /\ Len(prev.present.objects) > 0

(* C17 as stated: DELETE_OBJECT with the id present removes exactly that  *)
(* object, keeps the others in order with zIndex 0..n-2, clears the       *)
(* selection exactly when it was the deleted id, and keeps zoom and pan.  *)
C17_DeleteRemovesOne ==
    (last.type = "DELETE_OBJECT" /\ LastIdPresent)
    => LET old == prev.present.objects
           new == state.present.objects
           n == Len(old)
           p == SetMin({i \in 1..n : old[i].id = last.id})
           others == (1..n) \ {p}
       IN /\ Len(new) = n - 1
          /\ \A j \in 1..(n - 1) :
                new[j] = Merge(old[Nth(others, j)], [zIndex |-> j - 1])
          /\ (state.present.selectedId = NoId)
                <=> (prev.present.selectedId \in {NoId, last.id})
          /\ prev.present.selectedId # last.id
             => state.present.selectedId = prev.present.selectedId
          /\ state.present.zoom = prev.present.zoom
          /\ state.present.pan = prev.present.pan


(* The snapshot with every zIndex replaced by the array position. *)
Renormalized(s) ==
    [s EXCEPT !.objects =
        [i \in 1..Len(s.objects) |-> [s.objects[i] EXCEPT !.zIndex = i - 1]]]

IsNormalized(s) == \A i \in 1..Len(s.objects) : s.objects[i].zIndex = i - 1

(* The snapshots whose serialization the last step parsed: the snapshot   *)
(* handleImport prefilled the prompt with, when the user kept the text,   *)
(* and the snapshot whose export was pasted.                              *)
SnapshotsAtHand ==
    IF last.type = "handleImport" /\ last.answer = "keep" THEN {prev.present}
    ELSE IF last.type = "handleImport" /\ last.answer = "pasted"
         THEN {PastedSnapshot}
    ELSE {}

(* Two objects read the same: every attribute has the same value in      *)
(* both, an attribute that is missing reading as undefined.               *)
SameObject(a, b) ==
    \A k \in DOMAIN a \cup DOMAIN b :
        IF k \in DOMAIN a /\ k \in DOMAIN b THEN a[k] = b[k]
        ELSE /\ k = "fill"
             /\ k \in DOMAIN a => a[k] = Undefined
             /\ k \in DOMAIN b => b[k] = Undefined

SameSnapshot(p, q) ==
    /\ DOMAIN p = DOMAIN q
    /\ p.selectedId = q.selectedId
    /\ p.zoom = q.zoom
    /\ p.pan = q.pan
    /\ Len(p.objects) = Len(q.objects)
    /\ \A i \in 1..Len(p.objects) : SameObject(p.objects[i], q.objects[i])

(* C18: parseState(serializeState(s)) succeeds and equals s with the      *)
(* zIndex of its objects renormalized to array position, every other      *)
(* attribute, selectedId, zoom and pan equal; on a normalized s the round *)
(* trip is the identity.                                                  *)
C18_RoundTrip ==
    \A s \in SnapshotsAtHand :
        LET r == parseState(serializeState(s))
        IN /\ r.ok
           /\ SameSnapshot(r.present, Renormalized(s))
           /\ IsNormalized(s) => SameSnapshot(r.present, s)

(* The export of a snapshot with stale zIndex values was pasted, parsed   *)
(* and imported.                                                          *)
C18_Witness ==
    /\ last.type = "handleImport"
    /\ last.answer = "pasted"
    /\ ~IsNormalized(PastedSnapshot)
    /\ last.dispatched = << "IMPORT_STATE" >>
    /\ state.present = Renormalized(PastedSnapshot)

(* C19: an import attempt whose prompt is cancelled or empty, or whose    *)
(* text parseState rejects, dispatches no command and leaves past,        *)
(* present and future as they were; an attempt whose text parses          *)
(* dispatches IMPORT_STATE and the parsed snapshot replaces the history.  *)
C19_ImportAtomic ==
    last.type = "handleImport"
    => LET text == PromptText(last.answer, prev.present)
           parsed == parseState(text)
       IN IF Len(text) = 0 \/ ~parsed.ok
          THEN /\ last.dispatched = <<>>
               /\ state = prev
          ELSE /\ last.dispatched = << "IMPORT_STATE" >>
               /\ state = [past |-> <<>>, present |-> parsed.present,
                           future |-> <<>>]

(* A non-empty text that parseState rejects was pasted while the future  *)
(* held a snapshot an import would have discarded.                        *)
C19_Witness ==
    /\ last.type = "handleImport"
    /\ last.answer \in {"truncated", "null"}
    /\ Len(PromptText(last.answer, prev.present)) > 0
    /\ ~parseState(PromptText(last.answer, prev.present)).ok
    /\ Len(prev.future) > 0
    /\ state.future = prev.future

(* C20: a payload whose objects member is absent or null parses to a      *)
(* snapshot with no objects, and importing it installs a present with     *)
(* zero objects and empty past and future.                                *)
C20_AbsentObjectsDefault ==
    (last.type = "handleImport"
     /\ last.answer \in {"no-objects", "null-objects"})
    => LET r == parseState(PromptText(last.answer, prev.present))
       IN /\ r.ok
          /\ r.present.objects = <<>>
          /\ last.dispatched = << "IMPORT_STATE" >>
          /\ state.present.objects = <<>>
          /\ state.past = <<>>
          /\ state.future = <<>>

(* A payload without an objects member was imported over an editor that   *)
(* held objects and history.                                              *)
C20_Witness ==
    /\ last.type = "handleImport"
    /\ last.answer = "no-objects"
    /\ Len(prev.present.objects) > 0
    /\ Len(prev.past) > 0
    /\ state.present.objects = <<>>
    /\ state.past = <<>>


(* The flag a SET_VISIBILITY or SET_LOCK command sets. *)
FlagChange ==
    IF last.type = "SET_VISIBILITY" THEN [visible |-> last.visible]
    ELSE [locked |-> last.locked]

(* The last command left the number of objects, selectedId, zoom and pan  *)
(* as they were, and every object whose id is not the command's.          *)
OthersKept ==
    LET old == prev.present.objects
        new == state.present.objects
    IN /\ Len(new) = Len(old)
       /\ \A i \in 1..Len(old) : old[i].id # last.id => new[i] = old[i]
       /\ state.present.selectedId = prev.present.selectedId
       /\ state.present.zoom = prev.present.zoom
       /\ state.present.pan = prev.present.pan

(* C23 as stated: UPDATE_OBJECT, SET_VISIBILITY and SET_LOCK with an id   *)
(* that is present change only the objects with that id, an updated       *)
(* object being the old one with the supplied attributes merged over it   *)
(* and a flagged one the old one with that flag set.                      *)
C23_OnlyTargetChanged ==
    (last.type \in {"UPDATE_OBJECT", "SET_VISIBILITY", "SET_LOCK"}
     /\ LastIdPresent)
    => LET old == prev.present.objects
           new == state.present.objects
           changes == IF last.type = "UPDATE_OBJECT" THEN last.changes
                      ELSE FlagChange
       IN /\ OthersKept
          /\ \A i \in 1..Len(old) :
                old[i].id = last.id => new[i] = Merge(old[i], changes)

(* C23 amended: as above, except that zIndex is not among the attributes  *)
(* an update can set: the updated object keeps its array position as      *)
(* zIndex whatever zIndex the changes supply.                             *)
C23_OnlyTargetChangedButZIndex ==
    (last.type \in {"UPDATE_OBJECT", "SET_VISIBILITY", "SET_LOCK"}
     /\ LastIdPresent)
    => LET old == prev.present.objects
           new == state.present.objects
           changes == IF last.type = "UPDATE_OBJECT" THEN last.changes
                      ELSE FlagChange
       IN /\ OthersKept
          /\ \A i \in 1..Len(old) :
                old[i].id = last.id
                => new[i] = Merge(Merge(old[i], changes), [zIndex |-> i - 1])

(* An update supplying a zIndex hit an object that is not the only one,   *)
(* while an object was selected.                                          *)
C23_Witness ==
    /\ last.type = "UPDATE_OBJECT"
    /\ LastIdPresent
    /\ "zIndex" \in DOMAIN last.changes
    /\ \E i \in 1..Len(prev.present.objects) :
          prev.present.objects[i].id # last.id
    /\ \E i \in 1..Len(prev.present.objects) :
          /\ prev.present.objects[i].id = last.id
          /\ last.changes.zIndex # i - 1
    /\ prev.present.selectedId # NoId

(* past, present and future laid out in time order; future[1] is the next *)
(* redo.                                                                  *)
Timeline(c) == c.past \o << c.present >> \o c.future

(* C27: an UNDO or a REDO leaves the sequence past, present, future       *)
(* unchanged, so |past| + |future| is unchanged too.                      *)
C27_UndoRedoMoveCursor ==
    last.type \in {"UNDO", "REDO"}
    => /\ Timeline(state) = Timeline(prev)
       /\ Len(state.past) + Len(state.future)
          = Len(prev.past) + Len(prev.future)

(* An UNDO moved the cursor back and left a snapshot on each side of it.  *)
C27_Witness ==
    /\ last.type = "UNDO"
    /\ Len(prev.past) > 1
    /\ Len(state.past) = Len(prev.past) - 1
    /\ Len(state.future) = Len(prev.future) + 1
    /\ state.present # prev.present

(* An object without its zIndex. *)
StripZIndex(o) == [k \in DOMAIN o \ {"zIndex"} |-> o[k]]

(* How many objects of the sequence are o up to zIndex. *)
Occurrences(objects, o) ==
    Cardinality({i \in 1..Len(objects) : StripZIndex(objects[i]) = o})

(* C28 as stated: BRING_TO_FRONT and SEND_TO_BACK keep the number of      *)
(* objects and the collection of objects up to order and zIndex.          *)
C28_ReorderKeepsObjects ==
    last.type \in ReorderTypes
    => LET old == prev.present.objects
           new == state.present.objects
       IN /\ Len(new) = Len(old)
          /\ \A i \in 1..Len(old) :
                Occurrences(new, StripZIndex(old[i]))
                = Occurrences(old, StripZIndex(old[i]))


(* selectedId is none or the id of an object of the snapshot. *)
Consistent(p) == p.selectedId = NoId \/ HasId(p.objects, p.selectedId)

AllConsistent(c) == \A p \in Snapshots(c) : Consistent(p)

(* The last command respects the provisos of C26: a selection names none  *)
(* or an object of the present it is applied to, an imported snapshot is  *)
(* consistent, an added object has a fresh id, an update changes no id.   *)
ProvisoOfLast ==
    CASE last.type = "SET_SELECTED" ->
            last.id = NoId \/ HasId(prev.present.objects, last.id)
      [] last.type = "IMPORT_STATE" -> Consistent(last.present)
      [] last.type = "handleImport" ->
            last.dispatched = <<>> \/ Consistent(state.present)
      [] last.type = "ADD_OBJECT" ->
            ~HasId(prev.present.objects, last.object.id)
      [] last.type = "UPDATE_OBJECT" -> "id" \notin DOMAIN last.changes
      [] OTHER -> TRUE

(* C26: selection consistency is kept by every step that respects the     *)
(* provisos: if every snapshot the container held was consistent, every   *)
(* snapshot it holds after the step is, present among them (undo and redo *)
(* install snapshots of past and future, so these must be consistent for  *)
(* present to stay so).  The initial container is consistent.             *)
C26_SelectionConsistent ==
    /\ last.type = "INIT" => AllConsistent(state)
    /\ (AllConsistent(prev) /\ ProvisoOfLast)
       => (AllConsistent(state) /\ Consistent(state.present))

(* The selected object was deleted and the selection went with it. *)
C26_Witness ==
    /\ last.type = "DELETE_OBJECT"
    /\ AllConsistent(prev)
    /\ prev.present.selectedId = last.id
    /\ LastIdPresent
    /\ state.present.selectedId = NoId
    /\ Len(prev.past) > 0

(* The oldest snapshot of the container. *)
Bottom(c) == IF Len(c.past) > 0 THEN c.past[1] ELSE c.present

RECURSIVE UndoTimes(_, _)
UndoTimes(c, n) == IF n = 0 THEN c ELSE UndoTimes(UNDO(c, UndoCmd), n - 1)

(* The last step installed a snapshot: construction, RESET, IMPORT_STATE. *)
Installed ==
    \/ last.type \in {"INIT", "RESET", "IMPORT_STATE"}
    \/ last.type = "handleImport" /\ last.dispatched # <<>>

(* C29: |past| UNDOs lead to an empty past and to the oldest snapshot,    *)
(* where one more UNDO changes nothing; a step that installs a snapshot   *)
(* makes it the oldest one (past is empty), and every other step keeps    *)
(* the objects, zoom and pan of the oldest snapshot, so that the oldest   *)
(* snapshot is the installed one up to selectedId.                        *)
C29_UndoAllReachesBase ==
    LET u == UndoTimes(state, Len(state.past))
    IN /\ u.past = <<>>
       /\ u.present = Bottom(state)
       /\ UNDO(u, UndoCmd) = u
       /\ IF Installed THEN state.past = <<>>
          ELSE SameButSelection(Bottom(state), Bottom(prev))
       /\ last.type \in {"INIT", "RESET"} => state.present = initialPresent
       /\ last.type = "IMPORT_STATE"
          => SameButSelection(state.present,
                              [last.present EXCEPT
                                  !.objects = normalizeZIndex(@)])

(* Two commands lie on the history and the present differs from the       *)
(* oldest snapshot, which differs from the installed one in selectedId.   *)
C29_Witness ==
    /\ last.type \in HistoryTypes
    /\ Len(state.past) >= 2
    /\ ~SameButSelection(state.present, Bottom(state))
    /\ Bottom(state).selectedId # NoId
    /\ SameButSelection(Bottom(state), initialPresent)


(* The objects of present that createDefaultObject built. *)
Created ==
    {i \in 1..Len(state.present.objects) :
        state.present.objects[i].type # "region"}

(* C22 as stated: any two objects created in a session of quick-adds and  *)
(* drops have different ids, whatever the types and the clock values.     *)
C22_CreatedIdsUnique ==
    \A i, j \in Created :
        state.present.objects[i].id = state.present.objects[j].id => i = j


(* C21 as stated: whatever opacity UPDATE_OBJECT, ADD_OBJECT and          *)
(* IMPORT_STATE are handed, every object of present has an opacity        *)
(* within [0, 1] (0..100 in hundredths).                                  *)
C21_OpacityInRange ==
    \A i \in 1..Len(state.present.objects) :
        /\ state.present.objects[i].opacity >= 0
        /\ state.present.objects[i].opacity <= 100

(* The ids of the objects, in array order. *)
Ids(objects) == [i \in 1..Len(objects) |-> objects[i].id]

(* C24 as stated: a command other than RESET and IMPORT_STATE leaves the  *)
(* id of every surviving object as it was: commands that keep the array   *)
(* keep its ids position by position, ADD_OBJECT appends one id,          *)
(* DELETE_OBJECT and CLEAR only remove ids, a reorder permutes them.      *)
C24_IdsImmutable ==
    LET old == prev.present.objects
        new == state.present.objects
        notTarget(id) == id # last.id
        regionAt(i) == old[i].type = "region"
    IN CASE last.type \in {"UPDATE_OBJECT", "SET_VISIBILITY", "SET_LOCK",
                           "SET_SELECTED", "SET_ZOOM", "SET_VIEWPORT",
                           "SET_PAN"} -> Ids(new) = Ids(old)
         [] last.type = "ADD_OBJECT" ->
              Ids(new) = Append(Ids(old), last.object.id)
         [] last.type = "DELETE_OBJECT" ->
              Ids(new) = SelectSeq(Ids(old), notTarget)
         [] last.type = "CLEAR" ->
              /\ Len(new) = Cardinality({i \in 1..Len(old) : regionAt(i)})
              /\ \A j \in 1..Len(new) :
                    new[j].id
                    = old[Nth({i \in 1..Len(old) : regionAt(i)}, j)].id
         [] last.type \in ReorderTypes ->
              {new[i].id : i \in 1..Len(new)}
              = {old[i].id : i \in 1..Len(old)}
         [] OTHER -> TRUE

(* C25 as stated: no command other than one that installs a document      *)
(* changes the width or the height of a region: the region with a given   *)
(* id has after the command the size it had before.                       *)
C25_RegionSizeFixed ==
    ~Installed
    => \A i \in 1..Len(prev.present.objects) :
          \A j \in 1..Len(state.present.objects) :
             LET old == prev.present.objects[i]
                 new == state.present.objects[j]
             IN (old.type = "region" /\ new.id = old.id)
                => (new.width = old.width /\ new.height = old.height)

=============================================================================
